---- MODULE Spec2Model ----
(***************************************************************************)
(* Model of the notebook Intro_xarray_dask.ipynb run top to bottom.        *)
(*                                                                         *)
(* The state is the kernel namespace (cat, ds, a, b, c), what xarray has   *)
(* retrieved from the remote store, the dask graph built by delayed(), the *)
(* state of the function bodies that are executing (each body sleeps and   *)
(* then returns), the wall clock that %%time reads, and the outputs of the *)
(* cells.  One action per code cell; the cells that call add and mlt are   *)
(* split into the start of a call, the passing of one second, and the      *)
(* return of a call, so that overlapping and non-overlapping pauses can be *)
(* told apart.                                                             *)
(***************************************************************************)
EXTENDS Integers, Sequences, FiniteSets, TLC

\* Largest literal passed to add and mlt (the notebook passes 1 and 2).
MaxArg == 2
\* Largest number of worker threads dask's scheduler may be given.
MaxWorkers == 3
\* Number of steps on the time dimension of the dataset (one chunk of SST each).
NumTimes == 3

VARIABLES
  pc,         \* the code cell about to run ("halted" after an exception)
  ip,         \* statements of the current multi-statement cell already run
  lit,        \* the literals <<x1, y1, x2, y2>> of add(x1,y1) and mlt(x2,y2)
  kind,       \* namespace: what each name is bound to
  val,        \* namespace: the integer bound to a, b, c when kind is "int"
  dsk,        \* dask graph: key -> task (function and arguments)
  status,     \* per call/task: "idle", "pending", "sleeping", "done"
  remaining,  \* per call/task: seconds of sleep left
  argv,       \* per call/task: the argument values the body was called with
  res,        \* per task: value returned to the dask scheduler
  workers,    \* worker threads of the scheduler during compute()
  calls,      \* number of times the body of add / mlt has been entered
  wall,       \* seconds elapsed in the current %%time cell
  times,      \* wall time printed by each %%time cell (-1: not printed yet)
  out,        \* value displayed by the c.compute() cell (-1: none yet)
  eager,      \* value of c at the end of the eager cell (-1: none yet)
  meta,       \* TRUE once the dataset's metadata has been retrieved
  index,      \* dimension coordinates whose values are in memory
  loaded,     \* chunks (time steps) of SST whose values are in memory
  view,       \* the lazy array displayed by the last cell
  raised,     \* exception raised by a library call (NoExc: none)
  err,        \* exception shown to the user (NoExc: none)
  attempts    \* number of calls of open_catalog made

vars == <<pc, ip, lit, kind, val, dsk, status, remaining, argv, res, workers,
          calls, wall, times, out, eager, meta, index, loaded, view, raised,
          err, attempts>>

xrvars   == <<meta, index, loaded, view>>
errvars  == <<raised, err, attempts>>
runvars  == <<status, remaining, argv, res, workers, calls, wall>>
outvars  == <<times, out, eager>>

----------------------------------------------------------------------------
\* Names, literals and the two functions of the notebook.

Keys  == {"a", "b", "c"}
Order == <<"a", "b", "c">>
Funcs == {"add", "mlt"}
Args  == 1..MaxArg
Times == 0..(NumTimes - 1)
Exceptions == {"ConnectionError", "ValidationError"}

\* No exception; otherwise the library call that raised and what it raised.
NoExc == [call |-> "none", exc |-> "none"]

\* An argument of a call: a literal, or a name of the namespace.
Lit(n)  == [ref |-> FALSE, n |-> n, key |-> "-"]
Name(k) == [ref |-> TRUE,  n |-> 0, key |-> k]

NoTask == [fn |-> "none", args |-> <<>>]

\* Variant: the two pauses exchanged.
SleepOfSwapped(fn) == IF fn = "add" THEN 1 ELSE 2

\* sleep(2) in add, sleep(1) in mlt.
SleepOf(fn) == IF fn = "add" THEN 2 ELSE 1

add(x, y) == x + y

mlt(x, y) == x * y

Apply(fn, x, y) == IF fn = "add" THEN add(x, y) ELSE mlt(x, y)

\* The three statements shared by the eager and the delayed cell:
\*   a = add(x1,y1); b = mlt(x2,y2); c = mlt(a,b)
Stmt(k) ==
  CASE k = "a" -> [fn |-> "add", args |-> <<Lit(lit[1]), Lit(lit[2])>>]
    [] k = "b" -> [fn |-> "mlt", args |-> <<Lit(lit[3]), Lit(lit[4])>>]
    [] k = "c" -> [fn |-> "mlt", args |-> <<Name("a"), Name("b")>>]

----------------------------------------------------------------------------
Init ==
  /\ pc = "open"
  /\ ip = 0
  /\ lit \in [1..4 -> Args]
  /\ kind = [n \in Keys \cup {"cat", "ds", "add", "mlt", "delayed"} |-> "unbound"]
  /\ val = [k \in Keys |-> 0]
  /\ dsk = [k \in Keys |-> NoTask]
  /\ status = [k \in Keys |-> "idle"]
  /\ remaining = [k \in Keys |-> 0]
  /\ argv = [k \in Keys |-> <<0, 0>>]
  /\ res = [k \in Keys |-> 0]
  /\ workers = 0
  /\ calls = [f \in Funcs |-> 0]
  /\ wall = 0
  /\ times = [cell \in {"eager", "delayed", "compute"} |-> -1]
  /\ out = -1
  /\ eager = -1
  /\ meta = FALSE
  /\ index = {}
  /\ loaded = {}
  /\ view = [var |-> "none", sel |-> {}, reduced |-> FALSE]
  /\ raised = NoExc
  /\ err = NoExc
  /\ attempts = 0

----------------------------------------------------------------------------
\* Cell: cat = open_catalog(URL); ds = cat[...].to_dask()

\* An exception of a library call ends the cell: it is shown as raised and
\* the rest of the cell, and of the notebook, does not run.
Surface(call, e) ==
  /\ raised' = [call |-> call, exc |-> e]
  /\ err' = [call |-> call, exc |-> e]
  /\ pc' = "halted"

\* Variant: the cell catches the exception and goes on with placeholders.
OpenCatalogFallback ==
  /\ pc = "open"
  /\ \E e \in Exceptions : raised' = [call |-> "open_catalog", exc |-> e]
  /\ attempts' = attempts + 1
  /\ kind' = [kind EXCEPT !["cat"] = "catalog", !["ds"] = "dataset"]
  /\ meta' = TRUE
  /\ pc' = "ds"
  /\ UNCHANGED <<ip, lit, val, dsk, runvars, outvars, index, loaded, view, err>>

OpenCatalogRaises ==
  /\ pc = "open"
  /\ \E e \in Exceptions : Surface("open_catalog", e)
  /\ attempts' = attempts + 1
  /\ UNCHANGED <<ip, lit, kind, val, dsk, runvars, outvars, xrvars>>

ToDaskRaises ==
  /\ pc = "open"
  /\ \E e \in Exceptions : Surface("to_dask", e)
  /\ attempts' = attempts + 1
  /\ kind' = [kind EXCEPT !["cat"] = "catalog"]
  /\ UNCHANGED <<ip, lit, val, dsk, runvars, outvars, xrvars>>

\* to_dask() opens the store: it reads the metadata and builds the index of
\* the dimension coordinate; every data variable stays a lazy dask array.
OpenCell ==
  /\ pc = "open"
  /\ attempts' = attempts + 1
  /\ kind' = [kind EXCEPT !["cat"] = "catalog", !["ds"] = "dataset"]
  /\ meta' = TRUE
  /\ index' = {"time"}
  /\ pc' = "ds"
  /\ UNCHANGED <<ip, lit, val, dsk, runvars, outvars, loaded, view, raised, err>>

----------------------------------------------------------------------------
\* xarray: lazy arrays.  A DataArray of a data variable names the chunks it
\* covers; selecting and reducing build a new lazy array and read no chunk.

NoView == [var |-> "none", sel |-> {}, reduced |-> FALSE]

DataArray(v) == [var |-> v, sel |-> Times, reduced |-> FALSE]

Slice(lo, hi) == {t \in Times : lo <= t /\ t < hi}

isel(arr, s) == [arr EXCEPT !.sel = arr.sel \cap s]

mean(arr) == [arr EXCEPT !.reduced = TRUE]

\* The chunks whose values are needed to draw or compute arr.
Needed(arr) == IF arr.var = "SST" THEN arr.sel ELSE {}

\* A cell whose last expression is displayed: the repr is built from the
\* metadata (and, for a dimension coordinate, from its in-memory index).
Show(cell, next, arr) ==
  /\ pc = cell
  /\ kind["ds"] = "dataset"
  /\ meta
  /\ view' = arr
  /\ pc' = next
  /\ UNCHANGED <<ip, lit, kind, val, dsk, runvars, outvars, meta, index,
                 loaded, errvars>>

\* Cell: ds
DsCell == Show("ds", "SST", NoView)

\* Cell: ds.SST
SSTCell == Show("SST", "time", DataArray("SST"))

\* Cell: ds.time  (the values of the time coordinate are printed)
TimeCell ==
  /\ "time" \in index
  /\ Show("time", "dims", DataArray("time"))

\* Cell: ds.dims
DimsCell == Show("dims", "isel0", NoView)

\* Cell: ds.SST.isel(time=0)
Isel0Cell == Show("isel0", "isel10", isel(DataArray("SST"), {0}))

\* Cell: ds.SST.isel(time=slice(0,10))
Isel10Cell == Show("isel10", "mean", isel(DataArray("SST"), Slice(0, 10)))

\* Variant: the mean is computed when the cell runs.
MeanCellComputes ==
  /\ pc = "mean"
  /\ kind["ds"] = "dataset"
  /\ view' = mean(DataArray("SST"))
  /\ loaded' = loaded \cup Needed(mean(DataArray("SST")))
  /\ pc' = "plot"
  /\ UNCHANGED <<ip, lit, kind, val, dsk, runvars, outvars, meta, index,
                 errvars>>

\* Cell: ds.SST.mean('time')
MeanCell == Show("mean", "plot", mean(DataArray("SST")))

\* Cell: ds.SST.isel(time=0).plot()  -- drawing needs the values, so the
\* chunks of the selected array are fetched from the store.
PlotCell ==
  /\ pc = "plot"
  /\ kind["ds"] = "dataset"
  /\ view' = isel(DataArray("SST"), {0})
  /\ loaded' = loaded \cup Needed(isel(DataArray("SST"), {0}))
  /\ pc' = "def"
  /\ UNCHANGED <<ip, lit, kind, val, dsk, runvars, outvars, meta, index,
                 errvars>>

PlotRaises ==
  /\ pc = "plot"
  /\ kind["ds"] = "dataset"
  /\ \E e \in Exceptions : Surface("plot", e)
  /\ UNCHANGED <<ip, lit, kind, val, dsk, runvars, outvars, xrvars, attempts>>

----------------------------------------------------------------------------
\* Cell: from time import sleep; def add ...; def mlt ...
DefCell ==
  /\ pc = "def"
  /\ kind' = [kind EXCEPT !["add"] = "function", !["mlt"] = "function"]
  /\ pc' = "eager"
  /\ UNCHANGED <<ip, lit, val, dsk, runvars, outvars, xrvars, errvars>>

----------------------------------------------------------------------------
\* Bodies of add and mlt: enter (sleep starts), one second passes, return.

Sleeping == {k \in Keys : status[k] = "sleeping"}

\* Entering the body of Stmt(k).fn with argument values <<x, y>>.
Enter(k, fn, xy) ==
  /\ status' = [status EXCEPT ![k] = "sleeping"]
  /\ remaining' = [remaining EXCEPT ![k] = SleepOf(fn)]
  /\ argv' = [argv EXCEPT ![k] = xy]
  /\ calls' = [calls EXCEPT ![fn] = @ + 1]

\* One second of wall time: every body that is sleeping sleeps on.
Tick ==
  /\ pc \in {"eager", "computing"}
  /\ Sleeping # {}
  /\ \A k \in Sleeping : remaining[k] > 0
  /\ remaining' = [k \in Keys |->
                     IF k \in Sleeping THEN remaining[k] - 1 ELSE remaining[k]]
  /\ wall' = wall + 1
  /\ UNCHANGED <<pc, ip, lit, kind, val, dsk, status, argv, res, workers,
                 calls, outvars, xrvars, errvars>>

----------------------------------------------------------------------------
\* Cell: %%time; a = add(x1,y1); b = mlt(x2,y2); c = mlt(a,b)   (eager)

\* The value of an argument of an eager call.
EagerArg(arg) == IF arg.ref THEN val[arg.key] ELSE arg.n

\* The interpreter runs one statement at a time: statement ip+1 is called
\* when the statements before it have returned.
EagerCall(k) ==
  /\ pc = "eager"
  /\ ip < Len(Order)
  /\ Order[ip + 1] = k
  /\ Sleeping = {}
  /\ kind[Stmt(k).fn] = "function"
  /\ \A i \in 1..2 : Stmt(k).args[i].ref => kind[Stmt(k).args[i].key] = "int"
  /\ Enter(k, Stmt(k).fn,
           <<EagerArg(Stmt(k).args[1]), EagerArg(Stmt(k).args[2])>>)
  /\ UNCHANGED <<pc, ip, lit, kind, val, dsk, res, workers, wall, outvars,
                 xrvars, errvars>>

EagerReturn(k) ==
  /\ pc = "eager"
  /\ status[k] = "sleeping"
  /\ remaining[k] = 0
  /\ status' = [status EXCEPT ![k] = "done"]
  /\ kind' = [kind EXCEPT ![k] = "int"]
  /\ val' = [val EXCEPT ![k] = Apply(Stmt(k).fn, argv[k][1], argv[k][2])]
  /\ ip' = ip + 1
  /\ UNCHANGED <<pc, lit, dsk, remaining, argv, res, workers, calls, wall,
                 outvars, xrvars, errvars>>

\* End of the cell: %%time prints the wall time.
EagerEnd ==
  /\ pc = "eager"
  /\ ip = Len(Order)
  /\ times' = [times EXCEPT !["eager"] = wall]
  /\ eager' = val["c"]
  /\ wall' = 0
  /\ ip' = 0
  /\ status' = [k \in Keys |-> "idle"]
  /\ pc' = "import"
  /\ UNCHANGED <<lit, kind, val, dsk, remaining, argv, res, workers, calls,
                 out, xrvars, errvars>>

----------------------------------------------------------------------------
\* Cell: from dask import delayed
ImportCell ==
  /\ pc = "import"
  /\ kind' = [kind EXCEPT !["delayed"] = "function"]
  /\ pc' = "delayed"
  /\ UNCHANGED <<ip, lit, val, dsk, runvars, outvars, xrvars, errvars>>

----------------------------------------------------------------------------
\* Cell: %%time; a = delayed(add)(x1,y1); b = delayed(mlt)(x2,y2);
\*              c = delayed(mlt)(a,b)

\* An argument of a delayed call: a Delayed object becomes an edge of the
\* graph, anything else is stored in the task as a value.
DelayedArg(arg) ==
  IF arg.ref
    THEN IF kind[arg.key] = "delayed" THEN Name(arg.key) ELSE Lit(val[arg.key])
    ELSE arg

\* Variant: delayed(f)(x, y) enters the body of f at once.
DelayedStmtRuns(k) ==
  /\ pc = "delayed"
  /\ ip < Len(Order)
  /\ Order[ip + 1] = k
  /\ kind["delayed"] = "function"
  /\ dsk' = [dsk EXCEPT ![k] =
               [fn |-> Stmt(k).fn,
                args |-> <<DelayedArg(Stmt(k).args[1]),
                           DelayedArg(Stmt(k).args[2])>>]]
  /\ kind' = [kind EXCEPT ![k] = "delayed"]
  /\ ip' = ip + 1
  /\ calls' = [calls EXCEPT ![Stmt(k).fn] = @ + 1]
  /\ UNCHANGED <<pc, lit, val, status, remaining, argv, res, workers, wall,
                 outvars, xrvars, errvars>>

\* delayed(f)(x, y) records the task and binds the name to the Delayed
\* object; the body of f is not entered.
DelayedStmt(k) ==
  /\ pc = "delayed"
  /\ ip < Len(Order)
  /\ Order[ip + 1] = k
  /\ kind["delayed"] = "function"
  /\ dsk' = [dsk EXCEPT ![k] =
               [fn |-> Stmt(k).fn,
                args |-> <<DelayedArg(Stmt(k).args[1]),
                           DelayedArg(Stmt(k).args[2])>>]]
  /\ kind' = [kind EXCEPT ![k] = "delayed"]
  /\ ip' = ip + 1
  /\ UNCHANGED <<pc, lit, val, runvars, outvars, xrvars, errvars>>

DelayedEnd ==
  /\ pc = "delayed"
  /\ ip = Len(Order)
  /\ times' = [times EXCEPT !["delayed"] = wall]
  /\ ip' = 0
  /\ pc' = "compute"
  /\ UNCHANGED <<lit, kind, val, dsk, runvars, out, eager, xrvars, errvars>>

----------------------------------------------------------------------------
\* Cell: %%time; c.compute()

\* Variant: no task is taken to depend on another.
DepsNone(k) == {}

\* The tasks whose results task k takes as arguments.
Deps(k) == {dsk[k].args[i].key : i \in {j \in 1..Len(dsk[k].args) : dsk[k].args[j].ref}}

\* The tasks needed to compute the tasks of S.
RECURSIVE Graph(_)
Graph(S) ==
  LET T == S \cup UNION {Deps(k) : k \in S}
  IN  IF T = S THEN S ELSE Graph(T)

\* Variant: the result of the named task is not substituted.
TaskArgNoSubst(arg) == arg.n

\* The value of an argument of a task: the result of the task it names.
TaskArg(arg) == IF arg.ref THEN res[arg.key] ELSE arg.n

\* compute() hands the graph of c to the scheduler.
ComputeBegin ==
  /\ pc = "compute"
  /\ kind["c"] = "delayed"
  /\ \E w \in 1..MaxWorkers : workers' = w
  /\ status' = [k \in Keys |-> IF k \in Graph({"c"}) THEN "pending" ELSE "idle"]
  /\ pc' = "computing"
  /\ UNCHANGED <<ip, lit, kind, val, dsk, remaining, argv, res, calls, wall,
                 outvars, xrvars, errvars>>

\* A task is ready when the tasks it depends on are done.
Ready(k) == \A d \in Deps(k) : status[d] = "done"

\* A free worker thread takes a ready task and enters its function.
TaskStart(k) ==
  /\ pc = "computing"
  /\ status[k] = "pending"
  /\ Ready(k)
  /\ Cardinality(Sleeping) < workers
  /\ Enter(k, dsk[k].fn, <<TaskArg(dsk[k].args[1]), TaskArg(dsk[k].args[2])>>)
  /\ UNCHANGED <<pc, ip, lit, kind, val, dsk, res, workers, wall, outvars,
                 xrvars, errvars>>

TaskFinish(k) ==
  /\ pc = "computing"
  /\ status[k] = "sleeping"
  /\ remaining[k] = 0
  /\ status' = [status EXCEPT ![k] = "done"]
  /\ res' = [res EXCEPT ![k] = Apply(dsk[k].fn, argv[k][1], argv[k][2])]
  /\ UNCHANGED <<pc, ip, lit, kind, val, dsk, remaining, argv, workers, calls,
                 wall, outvars, xrvars, errvars>>

\* compute() returns the result of c; it is displayed and %%time prints.
ComputeEnd ==
  /\ pc = "computing"
  /\ status["c"] = "done"
  /\ out' = res["c"]
  /\ times' = [times EXCEPT !["compute"] = wall]
  /\ wall' = 0
  /\ status' = [k \in Keys |-> "idle"]
  /\ pc' = "ds2"
  /\ UNCHANGED <<ip, lit, kind, val, dsk, remaining, argv, res, workers,
                 calls, eager, xrvars, errvars>>

\* Cell: ds  (second time)
Ds2Cell == Show("ds2", "done", NoView)

----------------------------------------------------------------------------
Next ==
  \/ OpenCatalogRaises
  \/ ToDaskRaises
  \/ OpenCell
  \/ DsCell
  \/ SSTCell
  \/ TimeCell
  \/ DimsCell
  \/ Isel0Cell
  \/ Isel10Cell
  \/ MeanCell
  \/ PlotCell
  \/ PlotRaises
  \/ DefCell
  \/ \E k \in Keys : EagerCall(k)
  \/ \E k \in Keys : EagerReturn(k)
  \/ EagerEnd
  \/ Tick
  \/ ImportCell
  \/ \E k \in Keys : DelayedStmt(k)
  \/ DelayedEnd
  \/ ComputeBegin
  \/ \E k \in Keys : TaskStart(k)
  \/ \E k \in Keys : TaskFinish(k)
  \/ ComputeEnd
  \/ Ds2Cell

Spec == Init /\ [][Next]_vars

TypeOK ==
  /\ ip \in 0..3
  /\ wall \in 0..4
  /\ \A k \in Keys : status[k] \in {"idle", "pending", "sleeping", "done"}
  /\ loaded \subseteq Times

----------------------------------------------------------------------------
\* Properties.

\* The cells from the first display of ds up to, not including, the run of
\* the .plot() cell.
BeforePlot == {"ds", "SST", "time", "dims", "isel0", "isel10", "mean", "plot"}

\* C1: while the delayed graph is being built, and until c.compute() is
\* called, the bodies of add and mlt are not entered: the only calls counted
\* are the one add and the two mlt of the eager cell, nothing is sleeping,
\* no time has passed and no result exists; a further call is counted only
\* once compute() has been requested.
C1_NoBodyBeforeCompute ==
  /\ pc \in {"delayed", "compute"} =>
       /\ calls["add"] = 1
       /\ calls["mlt"] = 2
       /\ Sleeping = {}
       /\ wall = 0
       /\ out = -1
       /\ \A k \in Keys : res[k] = 0
  /\ (calls["add"] > 1 \/ calls["mlt"] > 2) => pc \in {"computing", "ds2", "done"}

\* C1 witness: the whole graph is built and compute() has not been called.
C1_Witness ==
  /\ pc = "compute"
  /\ \A k \in Keys : kind[k] = "delayed"
  /\ Deps("c") = {"a", "b"}
  /\ times["delayed"] = 0

\* C2: whatever the schedule, the value c.compute() returns is the value c
\* had at the end of the eager cell, mlt(add(x1,y1), mlt(x2,y2)); it is 6
\* for the literals of the notebook.
C2_ComputeEqualsEager ==
  pc \in {"ds2", "done"} =>
    /\ out = eager
    /\ out = mlt(add(lit[1], lit[2]), mlt(lit[3], lit[4]))
    /\ (lit = <<1, 2, 1, 2>> => out = 6)

\* C2 witness: compute() has returned 6 for the notebook's literals after a
\* schedule in which two workers ran add and mlt side by side.
C2_Witness ==
  /\ pc = "ds2"
  /\ lit = <<1, 2, 1, 2>>
  /\ out = 6
  /\ workers >= 2
  /\ times["compute"] = 3

C4_EagerTakesFour ==
  /\ pc = "eager" => Cardinality(Sleeping) <= 1
  /\ times["eager"] # -1 => times["eager"] = 4

\* C4 witness: the eager cell has ended, one add and two mlt were called.
C4_Witness ==
  /\ pc = "import"
  /\ times["eager"] = 4
  /\ calls["add"] = 1
  /\ calls["mlt"] = 2

C6_NoRecovery ==
  /\ raised # NoExc => err = raised /\ pc = "halted"
  /\ attempts <= 1
  /\ raised.call = "open_catalog" =>
       kind["cat"] = "unbound" /\ kind["ds"] = "unbound"
  /\ raised.call = "to_dask" => kind["ds"] = "unbound"
  /\ kind["ds"] \in {"unbound", "dataset"}
  /\ kind["ds"] = "dataset" => raised.call \notin {"open_catalog", "to_dask"}

\* C6 witness: open_catalog has raised.
C6_Witness ==
  /\ pc = "halted"
  /\ raised.call = "open_catalog"
  /\ err = raised
  /\ attempts = 1
  /\ kind["cat"] = "unbound"

====
